---- MODULE Spec2Model ----
(***************************************************************************)
(* The plan -> execute -> synthesize run of jobplanner                     *)
(* (app/graph_runtime.py wiring the nodes of app/nodes.py, started by      *)
(* app/api.py).  One run state, one action per graph node, the router as   *)
(* its own step.  Python strings are sequences of tokens: a tool name is   *)
(* one token, every other character is a token of its own.                 *)
(***************************************************************************)
EXTENDS Naturals, Sequences, FiniteSets

VARIABLES
    pc,                     \* the graph node about to run: planner, executer, router, synthesizer, done, abort
    user_input,             \* PlannerState.user_input
    plan,                   \* PlannerState.plan: None, or Some(list of steps)
    intermediate_messages,  \* PlannerState.intermediate_messages
    final_output,           \* PlannerState.final_output: None, or Some(text)
    error,                  \* history: the node whose external call raised ("" when none did)
    calls,                  \* history: every external call made, in order, with its reply
    nodeRuns,               \* history: how often each node function was entered
    origPlan,               \* history: the plan as the Planner returned it
    stepLog,                \* history: every executed step with the result it produced
    store,                  \* the files of data/jobs: file stem -> content
    saveLog,                \* history: every completed save with the stem it returned
    lastRead,               \* history: the last job-store read and its outcome
    savers,                 \* the requests inside save_job_description, each at its own line
    http,                   \* the HTTP request being served and its response
    run2                    \* the PlannerState of a second, concurrent run

runVars == <<pc, user_input, plan, intermediate_messages, final_output,
             error, calls, nodeRuns, origPlan, stepLog>>

envVars == <<store, saveLog, lastRead, savers, http, run2>>

vars == <<pc, user_input, plan, intermediate_messages, final_output,
          error, calls, nodeRuns, origPlan, stepLog,
          store, saveLog, lastRead, savers, http, run2>>

\* ------------------------------------------------------------------ bounds

MaxPlanLen == 2
MaxFairPlanLen == 1
MaxTailLen == 5
MaxStoredLen == 8       \* the longest list of steps the structured call answers with
MaxSaves == 3           \* saves in a row, when nothing is read
MaxReadSaves == 2       \* saves before and between the reads of the job store
MaxConcPlanLen == 1     \* steps of a plan, when two runs go on at once
MaxRequests == 2        \* requests a client sends one after the other

\* ------------------------------------------------------------ Optional[T]

None == <<>>
Some(v) == <<v>>

Min(S) == CHOOSE x \in S : \A y \in S : x <= y

\* ----------------------------------------------------------------- tokens

WS == "web_search_tool"
LJ == "load_job_by_title"
SJ == "search_jobs_by_title"
LA == "list_all_jobs"
GJ == "get_job_by_filename"
SC == "search_jobs_by_criteria"
LLM == "llm"
PLANNER_LLM == "planner_llm"

LP == "("
RP == ")"
DQ == "\""
SQ == "'"
NL == "\n"
CH == "a"

ToolNames == {WS, LJ, SJ, LA, GJ, SC}
ArgTools == {WS, LJ, SJ, GJ, SC}

ErrWeb == <<"Error: Could not parse web search query">>
ErrTitle == <<"Error: Could not parse job title">>
ErrTerm == <<"Error: Could not parse search term">>
ErrFilename == <<"Error: Could not parse filename">>
ErrCriteria == <<"Error: Could not parse search criteria">>

\* What an external capability may return: two distinguishable texts.
Replies == {<<"r1">>, <<"r2">>}

UserInputs == {<<"u1">>, <<"u2">>}

\* ---------------------------------------------------------- the regexes

StartsWith(s, name) == Len(s) >= 1 /\ s[1] = name

\* re.search(name\(q(.+?)q\), s): the leftmost start that matches at all,
\* and for it the shortest group; '.' matches anything but a line break.
ReMatch(name, q, s, i, j) ==
    /\ s[i] = name
    /\ s[i + 1] = LP
    /\ s[i + 2] = q
    /\ \A k \in (i + 3)..j : s[k] # NL
    /\ s[j + 1] = q
    /\ s[j + 2] = RP

ReSearch(name, q, s) ==
    LET Ends(i) == {j \in (i + 3)..(Len(s) - 2) : ReMatch(name, q, s, i, j)}
        Starts == {i \in 1..Len(s) : Ends(i) # {}}
    IN IF Starts = {} THEN None
       ELSE LET i == Min(Starts)
            IN Some(SubSeq(s, i + 3, Min(Ends(i))))

\* ------------------------------------------------------------- dispatch

ToolCall(name, a) == [kind |-> "tool", callee |-> name, arg |-> a, response |-> <<>>]
ParseError(msg) == [kind |-> "error", callee |-> "", arg |-> <<>>, response |-> msg]

\* The prompt built from the step's first character alone.
job_prompt_FirstChar(next_step) ==
    <<"You are a recruitment and job analysis expert. Process this step: Step: ">>
        \o (IF next_step = <<>> THEN <<>> ELSE <<next_step[1]>>)
        \o <<" Provide expert analysis and recommendations.">>

job_prompt(next_step) ==
    <<"You are a recruitment and job analysis expert. Process this step: Step: ">>
        \o next_step
        \o <<" Provide expert analysis and recommendations.">>

ModelCall(next_step) ==
    [kind |-> "llm", callee |-> LLM, arg |-> job_prompt(next_step), response |-> <<>>]

\* The whole step handed to the tool in place of the captured group.
QuotedArg_WholeStep(name, next_step, msg) ==
    LET m == ReSearch(name, DQ, next_step)
    IN IF m # None THEN ToolCall(name, next_step) ELSE ParseError(msg)

\* Single quotes accepted by every tool, as the web search accepts them.
QuotedArg_EitherQuote(name, next_step, msg) ==
    LET m1 == ReSearch(name, DQ, next_step)
        m == IF m1 = None THEN ReSearch(name, SQ, next_step) ELSE m1
    IN IF m # None THEN ToolCall(name, m[1]) ELSE ParseError(msg)

\* A step that cannot be parsed handed to the model.
QuotedArg_AskModel(name, next_step, msg) ==
    LET m == ReSearch(name, DQ, next_step)
    IN IF m # None THEN ToolCall(name, m[1]) ELSE ModelCall(next_step)

QuotedArg(name, next_step, msg) ==
    LET m == ReSearch(name, DQ, next_step)
    IN IF m # None THEN ToolCall(name, m[1]) ELSE ParseError(msg)

\* The web search with the double-quoted pattern alone, as the other tools.
WebSearchArg_DoubleOnly(next_step) ==
    LET m == ReSearch(WS, DQ, next_step)
    IN IF m # None THEN ToolCall(WS, m[1]) ELSE ParseError(ErrWeb)

\* An unparsed step searched for as it stands.
WebSearchArg_Fallback(next_step) ==
    LET m1 == ReSearch(WS, DQ, next_step)
        m == IF m1 = None THEN ReSearch(WS, SQ, next_step) ELSE m1
    IN IF m # None THEN ToolCall(WS, m[1]) ELSE ToolCall(WS, next_step)

WebSearchArg(next_step) ==
    LET m1 == ReSearch(WS, DQ, next_step)
        m == IF m1 = None THEN ReSearch(WS, SQ, next_step) ELSE m1
    IN IF m # None THEN ToolCall(WS, m[1]) ELSE ParseError(ErrWeb)

Dispatch(next_step) ==
    IF StartsWith(next_step, WS) THEN WebSearchArg(next_step)
    ELSE IF StartsWith(next_step, LJ) THEN QuotedArg(LJ, next_step, ErrTitle)
    ELSE IF StartsWith(next_step, SJ) THEN QuotedArg(SJ, next_step, ErrTerm)
    ELSE IF StartsWith(next_step, LA) THEN ToolCall(LA, <<>>)
    ELSE IF StartsWith(next_step, GJ) THEN QuotedArg(GJ, next_step, ErrFilename)
    ELSE IF StartsWith(next_step, SC) THEN QuotedArg(SC, next_step, ErrCriteria)
    ELSE ModelCall(next_step)

\* ------------------------------------------------------------ the inputs

\* Plan steps the Planner's model may return: correct calls of every tool,
\* single-quoted and unquoted calls, a call buried behind other text, an
\* argument holding a line break or a parenthesis, a call followed by more
\* text, and free text.
StepPool ==
    { <<WS, LP, DQ, CH, DQ, RP>>,
      <<WS, LP, SQ, CH, SQ, RP>>,
      <<WS, LP, CH, RP>>,
      <<WS, LP, DQ, CH, NL, DQ, RP>>,
      <<LJ, LP, DQ, CH, CH, DQ, RP>>,
      <<LJ, LP, SQ, CH, SQ, RP>>,
      <<SJ, LP, DQ, CH, DQ, RP>>,
      <<LA, LP, RP>>,
      <<GJ, LP, DQ, CH, DQ, RP>>,
      <<SC, LP, DQ, CH, DQ, RP>>,
      <<SC, CH, SC, LP, DQ, CH, DQ, RP>>,
      <<WS, LP, DQ, CH, DQ, RP, CH, DQ, RP>>,
      <<GJ, LP, DQ, CH, RP, CH, DQ, RP>>,
      <<CH, CH>> }

SeqsUpTo(S, n) == UNION {[1..k -> S] : k \in 0..n}

Plans == SeqsUpTo(StepPool, MaxPlanLen)

ShortPlans == SeqsUpTo(StepPool, MaxFairPlanLen)

\* Lists of steps of every length the Plan schema accepts, up to the bound.
LongPlans == SeqsUpTo({<<LA, LP, RP>>, <<CH>>}, MaxStoredLen)

\* Every step text of a head token and at most MaxTailLen further characters.
TailChars == {LP, RP, DQ, SQ, CH, NL}
AllSteps ==
    {<<>>} \cup {<<h>> \o t : h \in ToolNames \cup {CH}, t \in SeqsUpTo(TailChars, MaxTailLen)}

StepPlans == {<<>>} \cup {<<s>> : s \in AllSteps \cup StepPool}

\* --------------------------------------------------------------- prompts

PLANNER_SYSTEM == <<"You are a planning agent with access to job data. [...] 4-7 concrete steps.">>

\* The range of plan lengths the Planner's prompt asks the model for.
MinSteps == 4
MaxSteps == 7

planner_msgs(input) == PLANNER_SYSTEM \o <<NL, NL, "Task: ">> \o input

\* The entries joined last to first.
RECURSIVE Join_Reversed(_, _)
Join_Reversed(sep, xs) ==
    IF xs = <<>> THEN <<>>
    ELSE IF Len(xs) = 1 THEN xs[1]
    ELSE Join_Reversed(sep, Tail(xs)) \o <<sep>> \o xs[1]

RECURSIVE Join(_, _)
Join(sep, xs) ==
    IF xs = <<>> THEN <<>>
    ELSE IF Len(xs) = 1 THEN xs[1]
    ELSE xs[1] \o <<sep>> \o Join(sep, Tail(xs))

\* The request read under a key the state does not have.
synth_prompt_NoRequest(input, messages) ==
    <<"You are an expert synthesizer. [...] Request: ">>
        \o <<NL, "Collected Data:", NL>> \o Join(NL, messages) \o <<NL>>

synth_prompt(input, messages) ==
    <<"You are an expert synthesizer. [...] Request: ">> \o input
        \o <<NL, "Collected Data:", NL>> \o Join(NL, messages) \o <<NL>>

\* ---------------------------------------------------------------- graph

Call(callee, arg, reply) == [callee |-> callee, arg |-> arg, reply |-> reply]

Entered(node) == [nodeRuns EXCEPT ![node] = @ + 1]

\* state.get("plan") or []
PlanOrEmpty(p) == IF p = None THEN <<>> ELSE p[1]

\* The planner wired past the executer.
PlannerEdge_Skip == "synthesizer"

\* The router asked before the first Executor call.
PlannerEdge_Router == "router"

\* add_edge("planner", "executer")
PlannerEdge == "executer"

\* add_edge("synthesizer", END)
SynthesizerEdge == "done"

\* The router testing for a plan being present, not for steps being left.
router_function_NotNone(p) ==
    IF p # None THEN "executer" ELSE "synthesizer"

\* The router with its two branches swapped.
router_function_Swapped(p) ==
    IF PlanOrEmpty(p) # <<>> THEN "synthesizer" ELSE "executer"

router_function(p) ==
    IF PlanOrEmpty(p) # <<>> THEN "executer" ELSE "synthesizer"

\* state["plan"][1:]
\* The step taken off the wrong end: plan[:-1].
RestOfPlan_DropLast(p) == SubSeq(p, 1, Len(p) - 1)

\* The step executed and left in the plan.
RestOfPlan_Keep(p) == p

RestOfPlan(p) == Tail(p)

\* The new response put in front.
WithResponse_Prepend(messages, response) == <<response>> \o messages

\* The earlier responses dropped.
WithResponse_Overwrite(messages, response) == <<response>>

\* A parse error logged and left out of the results.
WithResponse_SkipErrors(messages, response) ==
    IF response \in {ErrWeb, ErrTitle, ErrTerm, ErrFilename, ErrCriteria} THEN messages
    ELSE messages \o <<response>>

\* (state.get("intermediate_messages") or []) + [response]
WithResponse(messages, response) == messages \o <<response>>

\* A run state as planner_agent.invoke receives it from the route.
InitRun ==
    /\ plan = None
    /\ intermediate_messages = <<>>
    /\ final_output = None
    /\ error = ""
    /\ calls = <<>>
    /\ nodeRuns = [n \in {"planner", "executer", "synthesizer"} |-> 0]
    /\ origPlan = None
    /\ stepLog = <<>>

\* Nothing but the one run: an empty job store, no save and no other request.
EnvIdle ==
    /\ store = <<>>
    /\ saveLog = <<>>
    /\ lastRead = <<>>
    /\ savers = <<>>
    /\ http = <<>>
    /\ run2 = <<>>

Init ==
    /\ pc = "planner"
    /\ user_input \in UserInputs
    /\ InitRun
    /\ EnvIdle

\* planner_node, the structured model call returning a Plan.
\* The list cut to the seven steps the prompt asks for at most.
PlannerReturns_Clamped(plans) ==
    /\ pc = "planner"
    /\ \E plan_steps \in plans :
         /\ calls' = Append(calls, Call(PLANNER_LLM, planner_msgs(user_input), Some(plan_steps)))
         /\ plan' = Some(SubSeq(plan_steps, 1, Min({MaxSteps, Len(plan_steps)})))
         /\ origPlan' = plan'
    /\ nodeRuns' = Entered("planner")
    /\ pc' = PlannerEdge
    /\ UNCHANGED envVars
    /\ UNCHANGED <<user_input, intermediate_messages, final_output, error, stepLog>>

PlannerReturns(plans) ==
    /\ pc = "planner"
    /\ \E plan_steps \in plans :
         /\ calls' = Append(calls, Call(PLANNER_LLM, planner_msgs(user_input), Some(plan_steps)))
         /\ plan' = Some(plan_steps)
         /\ origPlan' = Some(plan_steps)
    /\ nodeRuns' = Entered("planner")
    /\ pc' = PlannerEdge
    /\ UNCHANGED envVars
    /\ UNCHANGED <<user_input, intermediate_messages, final_output, error, stepLog>>

\* The planner's error swallowed and an empty plan returned.
PlannerRaises_EmptyPlan ==
    /\ pc = "planner"
    /\ calls' = Append(calls, Call(PLANNER_LLM, planner_msgs(user_input), None))
    /\ nodeRuns' = Entered("planner")
    /\ error' = "planner"
    /\ plan' = Some(<<>>)
    /\ pc' = PlannerEdge
    /\ UNCHANGED envVars
    /\ UNCHANGED <<user_input, intermediate_messages, final_output, origPlan, stepLog>>

\* planner_node, the structured model call raising: logged and re-raised.
PlannerRaises ==
    /\ pc = "planner"
    /\ calls' = Append(calls, Call(PLANNER_LLM, planner_msgs(user_input), None))
    /\ nodeRuns' = Entered("planner")
    /\ error' = "planner"
    /\ pc' = "abort"
    /\ UNCHANGED envVars
    /\ UNCHANGED <<user_input, plan, intermediate_messages, final_output, origPlan, stepLog>>

\* The empty-plan guard missing: plan[0] raises.
ExecutorEmpty_IndexError ==
    /\ pc = "executer"
    /\ PlanOrEmpty(plan) = <<>>
    /\ nodeRuns' = Entered("executer")
    /\ error' = "executer"
    /\ pc' = "abort"
    /\ UNCHANGED envVars
    /\ UNCHANGED <<user_input, plan, intermediate_messages, final_output, calls,
                   origPlan, stepLog>>

\* The empty-plan branch reporting a result of its own.
ExecutorEmpty_Placeholder ==
    /\ pc = "executer"
    /\ PlanOrEmpty(plan) = <<>>
    /\ plan' = Some(<<>>)
    /\ intermediate_messages' = WithResponse(intermediate_messages, <<"No steps to execute">>)
    /\ nodeRuns' = Entered("executer")
    /\ pc' = "router"
    /\ UNCHANGED envVars
    /\ UNCHANGED <<user_input, final_output, error, calls, origPlan, stepLog>>

\* job_aware_executor_node on an empty or absent plan.
ExecutorEmpty ==
    /\ pc = "executer"
    /\ PlanOrEmpty(plan) = <<>>
    /\ plan' = Some(<<>>)
    /\ nodeRuns' = Entered("executer")
    /\ pc' = "router"
    /\ UNCHANGED envVars
    /\ UNCHANGED <<user_input, intermediate_messages, final_output, error, calls,
                   origPlan, stepLog>>

\* A step that cannot be parsed raised as an exception, not answered.
ExecutorReturns_ParseRaises ==
    /\ pc = "executer"
    /\ PlanOrEmpty(plan) # <<>>
    /\ LET next_step == PlanOrEmpty(plan)[1]
           d == Dispatch(next_step)
       IN IF d.kind = "error"
          THEN /\ error' = "executer"
               /\ pc' = "abort"
               /\ UNCHANGED <<calls, plan, intermediate_messages, stepLog>>
          ELSE /\ \E r \in Replies :
                    /\ calls' = Append(calls, Call(d.callee, d.arg, Some(r)))
                    /\ plan' = Some(RestOfPlan(plan[1]))
                    /\ intermediate_messages' = WithResponse(intermediate_messages, r)
                    /\ stepLog' = Append(stepLog, [step |-> next_step, result |-> r])
               /\ pc' = "router"
               /\ UNCHANGED error
    /\ nodeRuns' = Entered("executer")
    /\ UNCHANGED envVars
    /\ UNCHANGED <<user_input, final_output, origPlan>>

\* job_aware_executor_node, the step handled and its result returned.
ExecutorReturns ==
    /\ pc = "executer"
    /\ PlanOrEmpty(plan) # <<>>
    /\ LET next_step == PlanOrEmpty(plan)[1]
           d == Dispatch(next_step)
       IN \E r \in Replies :
            LET response == IF d.kind = "error" THEN d.response ELSE r
            IN /\ calls' = IF d.kind = "error" THEN calls
                           ELSE Append(calls, Call(d.callee, d.arg, Some(r)))
               /\ plan' = Some(RestOfPlan(plan[1]))
               /\ intermediate_messages' = WithResponse(intermediate_messages, response)
               /\ stepLog' = Append(stepLog, [step |-> next_step, result |-> response])
    /\ nodeRuns' = Entered("executer")
    /\ pc' = "router"
    /\ UNCHANGED envVars
    /\ UNCHANGED <<user_input, final_output, error, origPlan>>

\* The step's error swallowed and recorded as the step's result.
ExecutorRaises_Swallowed ==
    /\ pc = "executer"
    /\ PlanOrEmpty(plan) # <<>>
    /\ LET d == Dispatch(PlanOrEmpty(plan)[1])
       IN /\ d.kind # "error"
          /\ calls' = Append(calls, Call(d.callee, d.arg, None))
    /\ nodeRuns' = Entered("executer")
    /\ error' = "executer"
    /\ plan' = Some(RestOfPlan(plan[1]))
    /\ intermediate_messages' = WithResponse(intermediate_messages, <<"Error">>)
    /\ pc' = "router"
    /\ UNCHANGED envVars
    /\ UNCHANGED <<user_input, final_output, origPlan, stepLog>>

\* The failing step taken off the plan and its error recorded before the
\* re-raise.
ExecutorRaises_Recorded ==
    /\ pc = "executer"
    /\ PlanOrEmpty(plan) # <<>>
    /\ LET d == Dispatch(PlanOrEmpty(plan)[1])
       IN /\ d.kind # "error"
          /\ calls' = Append(calls, Call(d.callee, d.arg, None))
    /\ nodeRuns' = Entered("executer")
    /\ error' = "executer"
    /\ plan' = Some(RestOfPlan(plan[1]))
    /\ intermediate_messages' = WithResponse(intermediate_messages, <<"Error">>)
    /\ pc' = "abort"
    /\ UNCHANGED envVars
    /\ UNCHANGED <<user_input, final_output, origPlan, stepLog>>

\* job_aware_executor_node, the tool or the model raising: logged and re-raised.
ExecutorRaises ==
    /\ pc = "executer"
    /\ PlanOrEmpty(plan) # <<>>
    /\ LET d == Dispatch(PlanOrEmpty(plan)[1])
       IN /\ d.kind # "error"
          /\ calls' = Append(calls, Call(d.callee, d.arg, None))
    /\ nodeRuns' = Entered("executer")
    /\ error' = "executer"
    /\ pc' = "abort"
    /\ UNCHANGED envVars
    /\ UNCHANGED <<user_input, plan, intermediate_messages, final_output, origPlan, stepLog>>

ExecutorNode == ExecutorEmpty \/ ExecutorReturns \/ ExecutorRaises

\* The conditional edge after the executer node.
RouterStep ==
    /\ pc = "router"
    /\ pc' = router_function(plan)
    /\ UNCHANGED envVars
    /\ UNCHANGED <<user_input, plan, intermediate_messages, final_output, error, calls,
                   nodeRuns, origPlan, stepLog>>

\* synthesizer_node, the model call returning.
SynthesizerReturns ==
    /\ pc = "synthesizer"
    /\ \E r \in Replies :
         /\ calls' = Append(calls, Call(LLM, synth_prompt(user_input, intermediate_messages), Some(r)))
         /\ final_output' = Some(r)
    /\ nodeRuns' = Entered("synthesizer")
    /\ pc' = SynthesizerEdge
    /\ UNCHANGED envVars
    /\ UNCHANGED <<user_input, plan, intermediate_messages, error, origPlan, stepLog>>

\* synthesizer_node, the model call raising: logged and re-raised.
SynthesizerRaises ==
    /\ pc = "synthesizer"
    /\ calls' = Append(calls, Call(LLM, synth_prompt(user_input, intermediate_messages), None))
    /\ nodeRuns' = Entered("synthesizer")
    /\ error' = "synthesizer"
    /\ pc' = "abort"
    /\ UNCHANGED envVars
    /\ UNCHANGED <<user_input, plan, intermediate_messages, final_output, origPlan, stepLog>>

PlannerNode == PlannerReturns(Plans) \/ PlannerRaises

PlannerNodeAnyStep == PlannerReturns(StepPlans)

SynthesizerNode == SynthesizerReturns \/ SynthesizerRaises

Next == PlannerNode \/ ExecutorNode \/ RouterStep \/ SynthesizerNode

Spec == Init /\ [][Next]_vars

\* Every node call returns or raises: a run never just stops between nodes.
NextFair ==
    PlannerReturns(ShortPlans) \/ PlannerRaises \/ ExecutorNode \/ RouterStep \/ SynthesizerNode

FairSpec == Init /\ [][NextFair]_vars /\ WF_vars(NextFair)

\* One Executor call on every step text up to the bound.
NextDispatch == PlannerNodeAnyStep \/ ExecutorNode

InitDispatch == Init /\ user_input = <<"u1">>

SpecDispatch == InitDispatch /\ [][NextDispatch]_vars

\* Plans of steps that name an argument tool and cannot be parsed: an
\* unquoted and a single-quoted argument, a bare tool name, a missing closing
\* quote and an empty argument; with them a tool step and a free-form step.
UnparsedSteps ==
    { <<WS, LP, CH, RP>>,
      <<LJ, LP, SQ, CH, SQ, RP>>,
      <<SJ>>,
      <<GJ, LP, DQ, CH, RP>>,
      <<SC, LP, DQ, DQ, RP>> }

ParsePlans == SeqsUpTo(UnparsedSteps \cup {<<LA, LP, RP>>, <<CH, CH>>}, MaxPlanLen)

NextParse ==
    PlannerReturns(ParsePlans) \/ PlannerRaises \/ ExecutorNode \/ RouterStep \/ SynthesizerNode

\* Every node call returns or raises.
SpecParse == Init /\ [][NextParse]_vars /\ WF_vars(NextParse)

\* The Planner alone, on lists of steps of every length up to the bound.
NextPlanner == PlannerReturns(LongPlans) \/ PlannerRaises

SpecPlanner == Init /\ [][NextPlanner]_vars

\* ------------------------------------------------------------ job store

\* The characters of the texts of a job record and of a file stem: lower-case
\* letters and an upper-case one, white space, a hyphen, a punctuation mark,
\* the underscore and the digits.
UP == "B"
LOW == "b"
UPN == "N"
LowerLetters == {CH, LOW, "c", "d", "e", "l", "n", "o", "p", "q", "r", "s", "t", "x", "z"}
SP == " "
HY == "-"
BANG == "!"
US == "_"
Digits == <<"0", "1", "2", "3", "4", "5", "6", "7", "8", "9">>

DigitChars == {Digits[i] : i \in 1..Len(Digits)}

\* str.lower()
Lower(s) ==
    [i \in 1..Len(s) |-> IF s[i] = UP THEN LOW ELSE IF s[i] = UPN THEN "n" ELSE s[i]]

\* \w and \s of the re module
WordChars == LowerLetters \cup {UP, UPN, US} \cup DigitChars
SpaceChars == {SP, NL}
AlnumChars == LowerLetters \cup {UP, UPN} \cup DigitChars
JobChars == AlnumChars \cup {US, SP, HY, BANG}

\* str(n) of a counter
RECURSIVE Str(_)
Str(n) == IF n < 10 THEN <<Digits[n + 1]>> ELSE Str(n \div 10) \o <<Digits[(n % 10) + 1]>>

\* re.sub(r'[<class>]', '', s)
RECURSIVE Remove(_, _)
Remove(s, class) ==
    IF s = <<>> THEN <<>>
    ELSE (IF s[1] \in class THEN <<>> ELSE <<s[1]>>) \o Remove(Tail(s), class)

\* re.sub(r'[<class>]+', '_', s): every maximal run of the class becomes one '_'
RECURSIVE SubRuns(_, _, _)
SubRuns(s, class, inRun) ==
    IF s = <<>> THEN <<>>
    ELSE IF s[1] \in class
         THEN (IF inRun THEN <<>> ELSE <<US>>) \o SubRuns(Tail(s), class, TRUE)
         ELSE <<s[1]>> \o SubRuns(Tail(s), class, FALSE)

\* str.strip('_')
RECURSIVE LStrip(_)
LStrip(s) == IF s # <<>> /\ s[1] = US THEN LStrip(Tail(s)) ELSE s

RECURSIVE RStrip(_)
RStrip(s) == IF s # <<>> /\ s[Len(s)] = US THEN RStrip(SubSeq(s, 1, Len(s) - 1)) ELSE s

Strip(s) == RStrip(LStrip(s))

MaxFilenameLen == 100

Cut(s, n) == IF Len(s) > n THEN SubSeq(s, 1, n) ELSE s

sanitize_filename(text) ==
    Cut(Strip(SubRuns(Remove(text, JobChars \ (WordChars \cup SpaceChars \cup {HY})),
                      SpaceChars \cup {HY}, FALSE)),
        MaxFilenameLen)

MaxSlugLen == 80

\* parsing._slugify; its second re.sub finds no run of '_' left to merge
_slugify(value) ==
    Cut(Lower(Strip(SubRuns(value, (JobChars \cup SpaceChars) \ AlnumChars, FALSE))), MaxSlugLen)

\* dict.get(k, default)
Get(d, k, default) == IF k \in DOMAIN d THEN d[k] ELSE default

\* What an f-string prints for an optional value.
Show(v) == IF v = None THEN <<UPN, "o", "n", "e">> ELSE v[1]

\* a in b, for two strings
IsInfix(a, b) ==
    /\ Len(a) <= Len(b)
    /\ \E i \in 1..(Len(b) - Len(a) + 1) : SubSeq(b, i, i + Len(a) - 1) = a

\* str.strip() and str.split()
RECURSIVE LStripWS(_)
LStripWS(s) == IF s # <<>> /\ s[1] \in SpaceChars THEN LStripWS(Tail(s)) ELSE s

RECURSIVE RStripWS(_)
RStripWS(s) ==
    IF s # <<>> /\ s[Len(s)] \in SpaceChars THEN RStripWS(SubSeq(s, 1, Len(s) - 1)) ELSE s

StripWS(s) == RStripWS(LStripWS(s))

RECURSIVE Split(_, _)
Split(s, word) ==
    IF s = <<>> THEN (IF word = <<>> THEN <<>> ELSE <<word>>)
    ELSE IF s[1] \in SpaceChars
         THEN (IF word = <<>> THEN <<>> ELSE <<word>>) \o Split(Tail(s), <<>>)
         ELSE Split(Tail(s), Append(word, s[1]))

\* re.sub(r'[^\w\s]', ' ', s)
Clean(s) == [i \in 1..Len(s) |-> IF s[i] \in WordChars \cup SpaceChars THEN s[i] ELSE SP]

\* JobDescription.model_dump(): the ten keys, None for an optional field left out.
JobDescription(title, company, location, salary, type, requirements, responsibilities) ==
    [title |-> title, company |-> company, description |-> <<"d">>,
     requirements |-> requirements, location |-> location, salary |-> salary,
     type |-> type, posted_date |-> None, benefits |-> <<>>,
     responsibilities |-> responsibilities]

\* Four parsed job descriptions: a fully populated one, one whose own name ends
\* like a numbered copy of it, one that sanitizes to the same name, and one
\* with a name of its own.
JobFull == JobDescription(<<CH>>, <<LOW>>, Some(<<"l">>), Some(<<"s">>), Some(<<"t">>),
                          <<<<"q">>, <<"r">>>>, <<<<"p">>>>)
JobNumbered == JobDescription(<<CH>>, <<LOW, SP, "1">>, None, None, None, <<>>, <<>>)
JobSameName == JobDescription(<<CH, BANG>>, <<HY, UP>>, None, Some(<<"s", "2">>), None,
                              <<<<"q">>>>, <<>>)
JobOther == JobDescription(<<UP, HY, CH, CH, CH, CH>>, <<CH>>, Some(<<"l">>), None,
                           Some(<<"t">>), <<>>, <<<<"p">>>>)

JobPool == {JobFull, JobNumbered, JobSameName, JobOther}

\* A job file written by hand with the keys get_job_by_filename prints.
JobLegacy ==
    [title |-> <<CH>>, company |-> <<"c">>, description |-> <<"d">>,
     location |-> Some(<<"l">>), requirements |-> <<<<"q">>>>,
     responsibilities |-> <<>>, salary_range |-> Some(<<"s">>),
     employment_type |-> Some(<<"t">>), experience_level |-> Some(<<"x">>)]

\* Files json.load or the code after it fails on: not JSON at all, not
\* readable, and JSON that is no object.
Malformed == [raw |-> "not JSON"]
Unreadable == [raw |-> "unreadable"]
NotObject == [raw |-> "a JSON list"]

BadFiles == {Malformed, Unreadable, NotObject}

\* The exception open, json.load or dict access raises on a file's content.
LoadError(content) ==
    IF content = Unreadable THEN "IOError"
    ELSE IF content = Malformed THEN "JSONDecodeError"
    ELSE IF content = NotObject THEN "AttributeError"
    ELSE ""

\* The stores a request may find: empty, or holding one file not saved by it.
InitialStores ==
    {<<>>} \cup {[f \in {<<"x">>} |-> c] : c \in BadFiles \cup {JobLegacy}}

\* (filepath.exists(), then open(filepath, 'w') and json.dump)
Exists(st, stem) == stem \in DOMAIN st

Written(st, stem, job_data) ==
    [f \in DOMAIN st \cup {stem} |-> IF f = stem THEN job_data ELSE st[f]]

\* save_job_description: the name made of title and company.
Filename(job_data) ==
    sanitize_filename(Lower(Get(job_data, "title", <<"unknown_title">>)))
        \o <<US>> \o sanitize_filename(Lower(Get(job_data, "company", <<"unknown_company">>)))

Numbered(filename, counter) == filename \o <<US>> \o Str(counter)

\* The duplicate looked for once, not until a free name is found.
FreePath_OneProbe(st, filename, counter) ==
    IF Exists(st, filename) THEN Numbered(filename, counter) ELSE filename

\* save_job_description: the while loop, from its counter on; the path tried
\* first is the plain name, after it the numbered ones.
RECURSIVE NextFree(_, _, _)
NextFree(st, filename, counter) ==
    IF ~Exists(st, Numbered(filename, counter)) THEN Numbered(filename, counter)
    ELSE NextFree(st, filename, counter + 1)

FreePath(st, filename, counter) ==
    IF ~Exists(st, filename) THEN filename ELSE NextFree(st, filename, counter)

\* parsing.build_filename; the sha1 name is for an empty base, which the '_'
\* between the two slugs rules out
build_filename(job) ==
    _slugify(IF Get(job, "title", <<>>) = <<>> THEN <<"job">> ELSE job.title)
        \o <<US>>
        \o _slugify(IF Get(job, "company", <<>>) = <<>> THEN <<"company">> ELSE job.company)

\* parsing.save_job_json: the path it writes.
JsonPath(st, job) == FreePath(st, build_filename(job), 2)

\* Every order Path.glob can list the files in.
RECURSIVE Orders(_)
Orders(S) ==
    IF S = {} THEN {<<>>}
    ELSE UNION {{<<f>> \o o : o \in Orders(S \ {f})} : f \in S}

Raises(exc) == [raised |-> TRUE, exc |-> exc, text |-> <<>>]
Returns(text) == [raised |-> FALSE, exc |-> "", text |-> text]

\* The files of a listing that json.load fails on, in listing order.
Bad(st, order) == SelectSeq(order, LAMBDA f : st[f] \in BadFiles)

JobLine(job_data, stem) ==
    <<"- ">> \o Get(job_data, "title", <<"Unknown">>) \o <<" at ">>
        \o Get(job_data, "company", <<"Unknown">>) \o <<" (File: ">> \o stem \o <<")">>

JobLines(st, stems) == [i \in 1..Len(stems) |-> JobLine(st[stems[i]], stems[i])]

Matching(what, matching_jobs) ==
    IF matching_jobs # <<>>
    THEN Returns(<<"Jobs matching '">> \o what \o <<"':", NL>> \o Join(NL, matching_jobs))
    ELSE Returns(<<"No jobs found matching '">> \o what \o <<"'">>)

list_all_jobs(st, order) ==
    IF order = <<>> THEN Returns(<<"No jobs found in directory">>)
    ELSE IF Bad(st, order) # <<>> THEN Raises(LoadError(st[Bad(st, order)[1]]))
    ELSE Returns(<<"Available jobs:", NL>> \o Join(NL, JobLines(st, order)))

search_jobs_by_title(st, order, job_title) ==
    IF Bad(st, order) # <<>> THEN Raises(LoadError(st[Bad(st, order)[1]]))
    ELSE Matching(job_title,
             JobLines(st, SelectSeq(order, LAMBDA f :
                 IsInfix(Lower(job_title), Lower(Get(st[f], "title", <<>>))))))

searchable_text(job_data) ==
    Lower(Get(job_data, "title", <<>>) \o <<SP>> \o Get(job_data, "description", <<>>)
          \o <<SP>> \o Show(Get(job_data, "location", Some(<<>>)))
          \o <<SP>> \o Join(SP, Get(job_data, "requirements", <<>>))
          \o <<SP>> \o Join(SP, Get(job_data, "responsibilities", <<>>)))

search_jobs_by_criteria(st, order, criteria) ==
    IF Bad(st, order) # <<>> THEN Raises(LoadError(st[Bad(st, order)[1]]))
    ELSE Matching(criteria,
             JobLines(st, SelectSeq(order, LAMBDA f :
                 \E k \in 1..Len(Split(criteria, <<>>)) :
                     IsInfix(Lower(Split(criteria, <<>>)[k]), searchable_text(st[f])))))

Summary(job_data, requirements, responsibilities, salary, type) ==
    Join(NL, << <<"Job: ">> \o Get(job_data, "title", <<"Unknown">>),
                <<"Company: ">> \o Get(job_data, "company", <<"Unknown">>),
                <<"Location: ">> \o Show(Get(job_data, "location", Some(<<"Unknown">>))),
                <<"Description: ">> \o Get(job_data, "description", <<>>),
                <<"Requirements: ">> \o requirements,
                <<"Responsibilities: ">> \o responsibilities,
                <<"Salary: ">> \o Show(salary),
                <<"Employment Type: ">> \o Show(type),
                <<"Experience Level: ">>
                    \o Show(Get(job_data, "experience_level", Some(<<"Not specified">>))) >>)

\* get_job_by_filename: the f-string it returns.
get_job_summary(job_data) ==
    Summary(job_data,
            Join(", ", Get(job_data, "requirements", <<>>)),
            Join(", ", Get(job_data, "responsibilities", <<>>)),
            Get(job_data, "salary_range", Some(<<"Not specified">>)),
            Get(job_data, "employment_type", Some(<<"Not specified">>)))

get_job_by_filename(st, filename) ==
    IF Exists(st, filename)
    THEN IF st[filename] \in BadFiles THEN Raises(LoadError(st[filename]))
         ELSE Returns(get_job_summary(st[filename]))
    ELSE Returns(<<"Job file '">> \o filename \o <<".json' not found">>)

ListOr(items, sep, empty) == IF items # <<>> THEN Join(sep, items) ELSE empty

format_job_data(job_data) ==
    Summary(job_data,
            ListOr(Get(job_data, "requirements", <<>>), ", ", <<"Not specified">>),
            ListOr(Get(job_data, "responsibilities", <<>>), ", ", <<"Not specified">>),
            Get(job_data, "salary", Get(job_data, "salary_range", Some(<<"Not specified">>))),
            Get(job_data, "type", Get(job_data, "employment_type", Some(<<"Not specified">>))))

\* load_job_by_title: the two checks made on one file.
TitleMatches(job_data, stem, job_title) ==
    LET normalized_search == sanitize_filename(Lower(job_title))
        file_title_clean == Clean(Lower(Get(job_data, "title", <<>>)))
        search_title_clean == Clean(Lower(job_title))
        words == Split(search_title_clean, <<>>)
    IN \/ IsInfix(normalized_search, Lower(stem))
       \/ IsInfix(StripWS(search_title_clean), file_title_clean)
       \/ IsInfix(StripWS(file_title_clean), search_title_clean)
       \/ \E k \in 1..Len(words) : Len(words[k]) > 3 /\ IsInfix(words[k], file_title_clean)

\* load_job_by_title: a file that is not JSON or not readable is skipped; one
\* that is JSON but no object fails at the first .get inside the try, which
\* catches JSONDecodeError and IOError only.
RECURSIVE load_job_by_title(_, _, _)
load_job_by_title(st, order, job_title) ==
    IF order = <<>>
    THEN Returns(<<"Job with title '">> \o job_title \o <<"' not found in directory">>)
    ELSE IF st[order[1]] \in {Malformed, Unreadable}
         THEN load_job_by_title(st, Tail(order), job_title)
    ELSE IF st[order[1]] = NotObject THEN Raises(LoadError(NotObject))
    ELSE IF TitleMatches(st[order[1]], order[1], job_title)
         THEN Returns(format_job_data(st[order[1]]))
    ELSE load_job_by_title(st, Tail(order), job_title)

\* No run is going on while the job store is saved to and read.
NoRun ==
    /\ pc = "idle"
    /\ user_input = <<>>
    /\ InitRun

InitStore ==
    /\ NoRun
    /\ store \in InitialStores
    /\ saveLog = <<>>
    /\ lastRead = None
    /\ savers = <<>>
    /\ http = <<>>
    /\ run2 = <<>>

Saved(job_data, stem) == [job |-> job_data, stem |-> stem]

\* save_job_description, from the name to the returned stem, with no other
\* request in between.
SaveJob(limit) ==
    /\ Len(saveLog) < limit
    /\ \E job_data \in JobPool :
         LET filepath == FreePath(store, Filename(job_data), 1)
         IN /\ store' = Written(store, filepath, job_data)
            /\ saveLog' = Append(saveLog, Saved(job_data, filepath))
    /\ UNCHANGED <<lastRead, savers, http, run2>>
    /\ UNCHANGED runVars

\* parsing.save_job_json, likewise.
SaveJobJson(limit) ==
    /\ Len(saveLog) < limit
    /\ \E job \in {JobFull, JobSameName} :
         LET path == JsonPath(store, job)
         IN /\ store' = Written(store, path, job)
            /\ saveLog' = Append(saveLog, Saved(job, path))
    /\ UNCHANGED <<lastRead, savers, http, run2>>
    /\ UNCHANGED runVars

\* What the steps of a plan ask the job store for.
Queries ==
    {<<CH>>, <<"z">>, <<"q", SP, "z">>, <<"z", SP, CH, CH, CH, CH>>, <<UP>>, <<UPN, "o", "n", "e">>}

\* A read, its outcome and the number of saves it came after.
Read(tool, arg, result) ==
    [tool |-> tool, arg |-> arg, result |-> result, saves |-> Len(saveLog)]

\* One call of a job-store tool, the directory listed in any order.
ReadJobs ==
    /\ \E order \in Orders(DOMAIN store) :
         \/ \E q \in Queries :
              \/ lastRead' = Some(Read(LJ, q, load_job_by_title(store, order, q)))
              \/ lastRead' = Some(Read(SJ, q, search_jobs_by_title(store, order, q)))
              \/ lastRead' = Some(Read(SC, q, search_jobs_by_criteria(store, order, q)))
         \/ lastRead' = Some(Read(LA, <<>>, list_all_jobs(store, order)))
         \/ \E filename \in DOMAIN store \cup {<<"z">>} :
              lastRead' = Some(Read(GJ, filename, get_job_by_filename(store, filename)))
    /\ UNCHANGED <<store, saveLog, savers, http, run2>>
    /\ UNCHANGED runVars

\* Saves one after the other.
NextSave == SaveJob(MaxSaves) \/ SaveJobJson(MaxSaves)

SpecSave == InitStore /\ [][NextSave]_vars

\* Saves and reads one after the other.
NextRead == SaveJob(MaxReadSaves) \/ ReadJobs

SpecRead == InitStore /\ [][NextRead]_vars

\* ---------------------------------------------------- concurrent saves

\* The requests that are inside save_job_description at the same time.
Savers == {1, 2}

Idle == [pc |-> "idle", job_data |-> JobFull, filename |-> <<>>, filepath |-> <<>>,
         counter |-> 1]

\* The stores two saves may start on: empty, or holding the record one of
\* them is about to save again.
RaceStores == {<<>>, [f \in {Filename(JobFull)} |-> JobFull]}

InitRace ==
    /\ NoRun
    /\ store \in RaceStores
    /\ saveLog = <<>>
    /\ lastRead = None
    /\ savers = [p \in Savers |-> Idle]
    /\ http = <<>>
    /\ run2 = <<>>

\* save_job_description up to the while loop: the name, the first path, the
\* counter.
SaveEnter(p) ==
    /\ savers[p].pc = "idle"
    /\ \E job_data \in JobPool :
         savers' = [savers EXCEPT ![p] =
                      [pc |-> "exists", job_data |-> job_data,
                       filename |-> Filename(job_data), filepath |-> Filename(job_data),
                       counter |-> 1]]
    /\ UNCHANGED <<store, saveLog, lastRead, http, run2>>
    /\ UNCHANGED runVars

\* One evaluation of filepath.exists(): the next numbered path, or out of the
\* loop.
SaveProbe(p) ==
    /\ savers[p].pc = "exists"
    /\ LET save == savers[p]
       IN savers' = [savers EXCEPT ![p] =
                       IF Exists(store, save.filepath)
                       THEN [save EXCEPT !.filepath = Numbered(save.filename, save.counter),
                                         !.counter = save.counter + 1]
                       ELSE [save EXCEPT !.pc = "write"]]
    /\ UNCHANGED <<store, saveLog, lastRead, http, run2>>
    /\ UNCHANGED runVars

\* The file created only if it still does not exist, the loop taken up again
\* if it does.
SaveWrite_Exclusive(p) ==
    /\ savers[p].pc = "write"
    /\ IF Exists(store, savers[p].filepath)
       THEN /\ savers' = [savers EXCEPT ![p].pc = "exists"]
            /\ UNCHANGED <<store, saveLog>>
       ELSE /\ store' = Written(store, savers[p].filepath, savers[p].job_data)
            /\ saveLog' = Append(saveLog, Saved(savers[p].job_data, savers[p].filepath))
            /\ savers' = [savers EXCEPT ![p].pc = "returned"]
    /\ UNCHANGED <<lastRead, http, run2>>
    /\ UNCHANGED runVars

\* open(filepath, 'w'), json.dump and the return of the stem.
SaveWrite(p) ==
    /\ savers[p].pc = "write"
    /\ store' = Written(store, savers[p].filepath, savers[p].job_data)
    /\ saveLog' = Append(saveLog, Saved(savers[p].job_data, savers[p].filepath))
    /\ savers' = [savers EXCEPT ![p].pc = "returned"]
    /\ UNCHANGED <<lastRead, http, run2>>
    /\ UNCHANGED runVars

NextRace == \E p \in Savers : SaveEnter(p) \/ SaveProbe(p) \/ SaveWrite(p)

SpecRace == InitRace /\ [][NextRace]_vars

\* -------------------------------------------------------- HTTP boundary

PLAN == "/plan"
PLAN_WITH_JOB == "/plan-with-job"

\* PlanIn and PlanWithJobIn: user_input is required by the first and optional,
\* possibly empty, in the second.
Payloads(endpoint) ==
    IF endpoint = PLAN THEN {Some(u) : u \in UserInputs}
    ELSE {None, Some(<<>>), Some(<<"u1">>)}

Request(endpoint, payload_input) ==
    [endpoint |-> endpoint, user_input |-> payload_input, filename |-> None,
     job_data |-> None, response |-> None, earlier |-> <<>>]

InitHttp ==
    /\ pc = "request"
    /\ user_input = <<>>
    /\ InitRun
    /\ store = <<>>
    /\ saveLog = <<>>
    /\ lastRead = None
    /\ savers = <<>>
    /\ \E endpoint \in {PLAN, PLAN_WITH_JOB} :
         \E payload_input \in Payloads(endpoint) : http = Request(endpoint, payload_input)
    /\ run2 = <<>>

\* plan_with_job: the request made up when the payload brings none.
default_input(title, company, filename) ==
    <<"Create a learning and preparation plan for the ">> \o title
        \o <<" position at ">> \o company
        \o <<". First, load the job description using ", GJ, LP, DQ>> \o filename
        \o <<DQ, RP, " or ", LJ, LP, DQ>> \o title
        \o <<DQ, RP, " or ", LA, LP, RP, " to find it, [...]">>

\* plan, up to planner_agent.invoke.
PlanRoute ==
    /\ pc = "request"
    /\ http.endpoint = PLAN
    /\ user_input' = http.user_input[1]
    /\ pc' = "planner"
    /\ UNCHANGED <<plan, intermediate_messages, final_output, error, calls, nodeRuns,
                   origPlan, stepLog>>
    /\ UNCHANGED envVars

\* plan_with_job, the job description parsed and saved, up to
\* planner_agent.invoke.
PlanWithJobRoute ==
    /\ pc = "request"
    /\ http.endpoint = PLAN_WITH_JOB
    /\ \E job_data \in JobPool :
         LET filename == FreePath(store, Filename(job_data), 1)
         IN /\ store' = Written(store, filename, job_data)
            /\ saveLog' = Append(saveLog, Saved(job_data, filename))
            /\ http' = [http EXCEPT !.filename = Some(filename), !.job_data = Some(job_data)]
            /\ user_input' =
                 IF http.user_input # None /\ http.user_input[1] # <<>>
                 THEN http.user_input[1]
                 ELSE default_input(Get(job_data, "title", <<"this position">>),
                                    Get(job_data, "company", <<"this company">>), filename)
    /\ pc' = "planner"
    /\ UNCHANGED <<plan, intermediate_messages, final_output, error, calls, nodeRuns,
                   origPlan, stepLog>>
    /\ UNCHANGED <<lastRead, savers, run2>>

\* plan_with_job, parse_job_description raising its ValueError.
PlanWithJobParseRaises ==
    /\ pc = "request"
    /\ http.endpoint = PLAN_WITH_JOB
    /\ error' = "parse"
    /\ pc' = "abort"
    /\ UNCHANGED <<user_input, plan, intermediate_messages, final_output, calls, nodeRuns,
                   origPlan, stepLog>>
    /\ UNCHANGED envVars

Response(status, detail, body) == [status |-> status, detail |-> detail, body |-> body]

\* The body both routes build from the final state of the run.
RunBody == [final_output |-> final_output, intermediate_messages |-> intermediate_messages]

\* Every failure caught and answered with what the run has left behind.
Answer_AlwaysBody(endpoint) == Response(200, None, Some(RunBody))

\* What a route answers: its return value as 200; from plan_with_job the
\* HTTPException its except clause raises; from plan, which catches nothing
\* and whose middleware re-raises, the 500 of the framework.
Answer(endpoint) ==
    IF pc = "done" THEN Response(200, None, Some(RunBody))
    ELSE IF endpoint = PLAN_WITH_JOB
         THEN Response(400, Some(<<"Failed to process: ", error>>), None)
    ELSE Response(500, Some(<<"Internal Server Error">>), None)

\* The file of the request deleted again when its run has failed.
Respond_RollBack ==
    /\ pc \in {"done", "abort"}
    /\ http.response = None
    /\ http' = [http EXCEPT !.response = Some(Answer(http.endpoint))]
    /\ store' = IF pc = "abort" /\ http.filename # None
                THEN [f \in DOMAIN store \ {http.filename[1]} |-> store[f]]
                ELSE store
    /\ UNCHANGED <<saveLog, lastRead, savers, run2>>
    /\ UNCHANGED runVars

\* The response leaves the server.
Respond ==
    /\ pc \in {"done", "abort"}
    /\ http.response = None
    /\ http' = [http EXCEPT !.response = Some(Answer(http.endpoint))]
    /\ UNCHANGED <<store, saveLog, lastRead, savers, run2>>
    /\ UNCHANGED runVars

NextHttp ==
    \/ PlanRoute \/ PlanWithJobRoute \/ PlanWithJobParseRaises
    \/ PlannerReturns(ShortPlans) \/ PlannerRaises
    \/ ExecutorNode \/ RouterStep \/ SynthesizerNode
    \/ Respond

SpecHttp == InitHttp /\ [][NextHttp]_vars

\* ------------------------------------------------------ concurrent runs

\* The PlannerState one planner_agent.invoke works on, with where the run is.
RunState(p, input, steps, messages, output, err, cs) ==
    [pc |-> p, user_input |-> input, plan |-> steps, intermediate_messages |-> messages,
     final_output |-> output, error |-> err, calls |-> cs]

\* The step the graph takes next on a state, given what the external call of
\* that step, if it makes one, answers: None when it raises.
NodeStep(st, ext) ==
    IF st.pc = "planner"
    THEN IF ext = None
         THEN [st EXCEPT !.calls = Append(@, Call(PLANNER_LLM, planner_msgs(st.user_input), None)),
                         !.error = "planner", !.pc = "abort"]
         ELSE [st EXCEPT !.calls = Append(@, Call(PLANNER_LLM, planner_msgs(st.user_input), ext)),
                         !.plan = ext, !.pc = PlannerEdge]
    ELSE IF st.pc = "executer"
    THEN IF PlanOrEmpty(st.plan) = <<>>
         THEN [st EXCEPT !.plan = Some(<<>>), !.pc = "router"]
         ELSE LET d == Dispatch(st.plan[1][1])
              IN IF d.kind = "error"
                 THEN [st EXCEPT !.plan = Some(RestOfPlan(st.plan[1])),
                                 !.intermediate_messages = WithResponse(@, d.response),
                                 !.pc = "router"]
                 ELSE IF ext = None
                 THEN [st EXCEPT !.calls = Append(@, Call(d.callee, d.arg, None)),
                                 !.error = "executer", !.pc = "abort"]
                 ELSE [st EXCEPT !.calls = Append(@, Call(d.callee, d.arg, ext)),
                                 !.plan = Some(RestOfPlan(st.plan[1])),
                                 !.intermediate_messages = WithResponse(@, ext[1]),
                                 !.pc = "router"]
    ELSE IF st.pc = "router"
    THEN [st EXCEPT !.pc = router_function(st.plan)]
    ELSE IF st.pc = "synthesizer"
    THEN LET prompt == synth_prompt(st.user_input, st.intermediate_messages)
         IN IF ext = None
            THEN [st EXCEPT !.calls = Append(@, Call(LLM, prompt, None)),
                            !.error = "synthesizer", !.pc = "abort"]
            ELSE [st EXCEPT !.calls = Append(@, Call(LLM, prompt, ext)),
                            !.final_output = ext, !.pc = SynthesizerEdge]
    ELSE st

\* A tool call that succeeds and a step whose argument cannot be parsed.
ConcSteps == {<<LA, LP, RP>>, <<LJ, LP, SQ, CH, SQ, RP>>}

ConcPlans == SeqsUpTo(ConcSteps, MaxConcPlanLen)

\* What the external call of the next step can answer.
Exts(st) ==
    IF st.pc = "planner" THEN {None} \cup {Some(steps) : steps \in ConcPlans}
    ELSE IF \/ st.pc = "synthesizer"
            \/ /\ st.pc = "executer"
               /\ PlanOrEmpty(st.plan) # <<>>
               /\ Dispatch(PlanOrEmpty(st.plan)[1]).kind # "error"
         THEN {None} \cup {Some(r) : r \in Replies}
    ELSE {None}

\* Two requests to /plan, each with an initial_input of its own.
InitRuns ==
    /\ pc = "planner"
    /\ user_input \in UserInputs
    /\ InitRun
    /\ store = <<>>
    /\ saveLog = <<>>
    /\ lastRead = None
    /\ savers = <<>>
    /\ http = <<>>
    /\ run2 \in {RunState("planner", input, None, <<>>, None, "", <<>>) : input \in UserInputs}

\* The second run handed the list of collected results of the first.
Run2Node_SharedMessages ==
    /\ run2.pc \in {"planner", "executer", "router", "synthesizer"}
    /\ \E ext \in Exts(run2) :
         run2' = NodeStep([run2 EXCEPT !.intermediate_messages = intermediate_messages], ext)
    /\ UNCHANGED <<store, saveLog, lastRead, savers, http>>
    /\ UNCHANGED runVars

\* One node of the second run, on the state planner_agent.invoke holds for it.
Run2Node ==
    /\ run2.pc \in {"planner", "executer", "router", "synthesizer"}
    /\ \E ext \in Exts(run2) : run2' = NodeStep(run2, ext)
    /\ UNCHANGED <<store, saveLog, lastRead, savers, http>>
    /\ UNCHANGED runVars

NextRuns ==
    \/ PlannerReturns(ConcPlans) \/ PlannerRaises
    \/ ExecutorNode \/ RouterStep \/ SynthesizerNode
    \/ Run2Node

SpecRuns == InitRuns /\ [][NextRuns]_vars

\* ----------------------------------------------------- repeated requests

\* The client sends its request again once it has the answer: a new call of
\* the route with the same payload, on the job store as the earlier requests
\* have left it. What the earlier requests were answered and the file each
\* of them saved are kept for the record.
Repeat ==
    /\ pc \in {"done", "abort"}
    /\ http.response # None
    /\ Len(http.earlier) < MaxRequests - 1
    /\ http' = [Request(http.endpoint, http.user_input) EXCEPT
                   !.earlier = Append(http.earlier,
                                      [status |-> http.response[1].status,
                                       filename |-> http.filename,
                                       job_data |-> http.job_data])]
    /\ pc' = "request"
    /\ user_input' = <<>>
    /\ plan' = None
    /\ intermediate_messages' = <<>>
    /\ final_output' = None
    /\ error' = ""
    /\ calls' = <<>>
    /\ nodeRuns' = [n \in {"planner", "executer", "synthesizer"} |-> 0]
    /\ origPlan' = None
    /\ stepLog' = <<>>
    /\ UNCHANGED <<store, saveLog, lastRead, savers, run2>>

InitRepeat == InitHttp /\ http.endpoint = PLAN_WITH_JOB

NextRepeat ==
    \/ PlanWithJobRoute \/ PlanWithJobParseRaises
    \/ PlannerReturns(ConcPlans) \/ PlannerRaises
    \/ ExecutorNode \/ RouterStep \/ SynthesizerNode
    \/ Respond \/ Repeat

\* Requests to /plan-with-job one after the other.
SpecRepeat == InitRepeat /\ [][NextRepeat]_vars

\* =============================================================== claims

PlanLen == Len(origPlan[1])

\* The i-th collected result is the result of the i-th step of the plan the
\* Planner returned, for all N steps of it.
InStepOrder ==
    /\ Len(stepLog) = PlanLen
    /\ Len(intermediate_messages) = PlanLen
    /\ \A i \in 1..PlanLen :
         /\ stepLog[i].step = origPlan[1][i]
         /\ intermediate_messages[i] = stepLog[i].result

\* C1 as stated: when the Synthesizer starts after a plan of N >= 0 steps with
\* no failed call, the Executor has run exactly N times and
\* intermediate_results holds the N step results in plan order.
C1_Original ==
    pc = "synthesizer" =>
        /\ nodeRuns["executer"] = PlanLen
        /\ InStepOrder

\* C1 as amended: when the Synthesizer starts after a plan of N >= 0 steps
\* with no failed call, the Executor has executed exactly N steps (its node
\* was entered N times, and once, as a no-op, when N = 0) and
\* intermediate_results holds the N step results in plan order.
C1_StepsInOrder ==
    pc = "synthesizer" =>
        /\ error = ""
        /\ nodeRuns["executer"] = (IF PlanLen = 0 THEN 1 ELSE PlanLen)
        /\ InStepOrder

C1_Witness ==
    /\ pc = "synthesizer"
    /\ PlanLen = 2
    /\ intermediate_messages[1] # intermediate_messages[2]

HasStep == plan # None /\ Len(plan[1]) >= 1

RouterChoice == IF HasStep THEN "executer" ELSE "synthesizer"

\* C2: in every reachable state the Router answers 'executer' exactly when the
\* plan holds at least one step and 'synthesizer' otherwise (an absent plan
\* included), and the run goes where the Router says.
C2_Router ==
    /\ [](router_function(plan) = RouterChoice)
    /\ [][pc = "router" => pc' = RouterChoice]_vars

C2_Witness ==
    /\ pc = "executer"
    /\ nodeRuns["executer"] >= 1
    /\ HasStep

\* C3: the Synthesizer runs at most once, exactly once in a run that is done,
\* and only on an empty plan; final_output is unset until the Synthesizer has
\* completed and is written once, by the Synthesizer.
C3_SynthesizerOnce ==
    /\ [](/\ nodeRuns["synthesizer"] <= 1
          /\ (pc = "done" => nodeRuns["synthesizer"] = 1)
          /\ (pc = "synthesizer" => plan = Some(<<>>))
          /\ (final_output # None => pc = "done" /\ nodeRuns["synthesizer"] = 1))
    /\ [][final_output' # final_output =>
            /\ final_output = None
            /\ pc = "synthesizer"
            /\ pc' = "done"]_vars

C3_Witness ==
    /\ pc = "done"
    /\ final_output # None
    /\ PlanLen >= 1
    /\ nodeRuns["synthesizer"] = 1

\* C4: the phases follow PLANNING -> EXECUTING (executer and router, looping)
\* -> SYNTHESIZING -> DONE, a raising node ending the run in the abort state:
\* the Planner is entered once and never again, a returning Planner is always
\* followed by the Executor, a returning Synthesizer always by DONE, and
\* nothing follows DONE or the abort state.
C4_PhaseOrder ==
    /\ [](/\ nodeRuns["planner"] <= 1
          /\ (pc = "planner" <=> nodeRuns["planner"] = 0))
    /\ [][/\ pc = "planner" => pc' = (IF error' = "planner" THEN "abort" ELSE "executer")
          /\ pc = "executer" => pc' = (IF error' = "executer" THEN "abort" ELSE "router")
          /\ pc = "router" => pc' \in {"executer", "synthesizer"}
          /\ pc = "synthesizer" => pc' = (IF error' = "synthesizer" THEN "abort" ELSE "done")
          /\ pc \notin {"done", "abort"}]_vars

C4_Witness ==
    /\ pc = "done"
    /\ origPlan = Some(<<>>)
    /\ nodeRuns = [n \in {"planner", "executer", "synthesizer"} |-> 1]

EmptyPlanned == origPlan = Some(<<>>)

\* C5: after the Planner returns zero steps the run does not fail before the
\* Synthesizer: the Synthesizer runs, once, on zero intermediate results and
\* an empty collected-data block, and the final_output it returns is set.
C5_EmptyPlan ==
    /\ EmptyPlanned ~> (EmptyPlanned /\ nodeRuns["synthesizer"] = 1)
    /\ [](EmptyPlanned =>
            /\ error # "executer"
            /\ intermediate_messages = <<>>
            /\ stepLog = <<>>
            /\ nodeRuns["synthesizer"] <= 1
            /\ (nodeRuns["synthesizer"] = 1 =>
                  /\ calls[Len(calls)].callee = LLM
                  /\ calls[Len(calls)].arg = synth_prompt(user_input, <<>>)
                  /\ final_output = calls[Len(calls)].reply))

C5_Witness ==
    /\ EmptyPlanned
    /\ pc = "done"
    /\ final_output # None
    /\ intermediate_messages = <<>>

\* Characters an argument between double quotes may hold as they stand: any
\* but the double quote and the line break.
PlainChars == {LP, RP, SQ, CH} \cup ToolNames

\* s starts with name("arg"), arg being n >= 1 plain characters.
QuotedCall(s, name, n) ==
    /\ n >= 1
    /\ Len(s) >= n + 5
    /\ s[1] = name
    /\ s[2] = LP
    /\ s[3] = DQ
    /\ \A k \in 4..(n + 3) : s[k] \in PlainChars
    /\ s[n + 4] = DQ
    /\ s[n + 5] = RP

NextStep == plan[1][1]

LastCall == calls[Len(calls)]

\* This step made exactly one external call, of callee with arg; if the call
\* returned, its return value is the one new last entry of
\* intermediate_results and the plan lost its first element; if it raised,
\* the run aborts.
OneCallOf(callee, arg) ==
    /\ Len(calls') = Len(calls) + 1
    /\ SubSeq(calls', 1, Len(calls)) = calls
    /\ calls'[Len(calls')].callee = callee
    /\ calls'[Len(calls')].arg = arg
    /\ IF calls'[Len(calls')].reply = None
       THEN error' = "executer" /\ pc' = "abort"
       ELSE /\ intermediate_messages' = Append(intermediate_messages, calls'[Len(calls')].reply[1])
            /\ plan' = Some(Tail(plan[1]))
            /\ error' = ""
            /\ pc' = "router"

\* C6: for a step that starts with a tool name and name("arg"), arg a
\* non-empty argument of plain characters, or with list_all_jobs, one
\* Executor call invokes that tool and nothing else, with exactly arg (with
\* no argument for list_all_jobs), appends the tool's return value as the
\* new last entry of intermediate_results and removes the plan's first
\* element; and so does every step that starts with a tool name and from
\* which the double-quoted pattern extracts an argument, with the argument
\* extracted.
C6_ToolDispatch ==
    [][pc = "executer" /\ HasStep =>
         /\ \A name \in ArgTools : \A n \in 1..Len(NextStep) :
              QuotedCall(NextStep, name, n) => OneCallOf(name, SubSeq(NextStep, 4, n + 3))
         /\ \A name \in ArgTools :
              StartsWith(NextStep, name) /\ ReSearch(name, DQ, NextStep) # None
                  => OneCallOf(name, ReSearch(name, DQ, NextStep)[1])
         /\ StartsWith(NextStep, LA) => OneCallOf(LA, <<>>)]_vars

C6_Witness ==
    /\ pc = "router"
    /\ Len(stepLog) = 1
    /\ QuotedCall(stepLog[1].step, GJ, 3)
    /\ LastCall.callee = GJ
    /\ LastCall.arg = SubSeq(stepLog[1].step, 4, 6)
    /\ intermediate_messages = <<LastCall.reply[1]>>
    /\ plan = Some(<<>>)

\* C7: a step that starts with web_search_tool and from which neither the
\* double-quoted nor the single-quoted pattern extracts an argument yields
\* exactly "Error: Could not parse web search query": no tool and no model
\* is called, nothing is raised, the step is removed from the plan and the
\* error string is appended to intermediate_results.
C7_WebSearchParseError ==
    [][/\ pc = "executer"
       /\ HasStep
       /\ StartsWith(NextStep, WS)
       /\ ReSearch(WS, DQ, NextStep) = None
       /\ ReSearch(WS, SQ, NextStep) = None
       => /\ calls' = calls
          /\ intermediate_messages' = Append(intermediate_messages, ErrWeb)
          /\ plan' = Some(Tail(plan[1]))
          /\ error' = ""
          /\ pc' = "router"]_vars

C7_Witness ==
    /\ pc = "router"
    /\ Len(stepLog) = 1
    /\ StartsWith(stepLog[1].step, WS)
    /\ DQ \in {stepLog[1].step[k] : k \in 1..Len(stepLog[1].step)}
    /\ intermediate_messages = <<ErrWeb>>
    /\ Len(calls) = 1
    /\ plan = Some(<<>>)
    /\ error = ""

\* C8: once a tool or the free-form model call has raised in an Executor
\* step the run is over: it is in the abort state, the Synthesizer was never
\* entered, final_output is unset, and no further step of any node follows.
C8_ExecutorErrorAborts ==
    /\ [](error = "executer" =>
            /\ pc = "abort"
            /\ LastCall.reply = None
            /\ LastCall.callee \in ToolNames \cup {LLM}
            /\ nodeRuns["synthesizer"] = 0
            /\ final_output = None)
    /\ [][error # "executer"]_vars

C8_Witness ==
    /\ error = "executer"
    /\ pc = "abort"
    /\ Len(plan[1]) = 2
    /\ LastCall.callee = WS

\* C9: once the structured Planner call has raised the run is over before
\* any step: it is in the abort state, neither the Executor nor the
\* Synthesizer was entered, no tool and no further model was called,
\* intermediate_results is empty, and nothing follows.
C9_PlannerErrorAborts ==
    /\ [](error = "planner" =>
            /\ pc = "abort"
            /\ nodeRuns["executer"] = 0
            /\ nodeRuns["synthesizer"] = 0
            /\ Len(calls) = 1
            /\ calls[1].callee = PLANNER_LLM
            /\ intermediate_messages = <<>>
            /\ final_output = None)
    /\ [][error # "planner"]_vars

C9_Witness ==
    /\ error = "planner"
    /\ pc = "abort"
    /\ plan = None

\* C10: intermediate_results is as long as the number of steps executed so
\* far, every completed Executor step on a non-empty plan appends exactly one
\* entry, and no step of the run changes or removes an earlier entry.
C10_AppendOnly ==
    /\ [](Len(intermediate_messages) = Len(stepLog))
    /\ [][/\ Len(intermediate_messages') >= Len(intermediate_messages)
          /\ SubSeq(intermediate_messages', 1, Len(intermediate_messages)) = intermediate_messages
          /\ (pc = "executer" /\ HasStep /\ pc' = "router"
                => Len(intermediate_messages') = Len(intermediate_messages) + 1)
          /\ (pc # "executer" \/ ~HasStep \/ pc' # "router"
                => intermediate_messages' = intermediate_messages)]_vars

C10_Witness ==
    /\ Len(intermediate_messages) = 2
    /\ Len(stepLog) = 2
    /\ plan = Some(<<>>)

\* The part of the Planner's plan that is left when k steps are.
PlanSuffix(k) == SubSeq(origPlan[1], PlanLen - k + 1, PlanLen)

\* C11: after the Planner has set the plan only the Executor changes it, each
\* Executor iteration on a non-empty plan removes exactly the first element,
\* and so the remaining plan is always a suffix of the plan the Planner
\* produced: nothing is re-inserted, reordered or modified.
C11_PlanSuffix ==
    /\ [](origPlan # None =>
            /\ plan # None
            /\ Len(plan[1]) <= PlanLen
            /\ plan[1] = PlanSuffix(Len(plan[1])))
    /\ [][origPlan # None /\ plan' # plan =>
            /\ pc = "executer"
            /\ HasStep
            /\ plan' = Some(Tail(plan[1]))]_vars
    /\ [][pc = "executer" /\ HasStep /\ pc' = "router" =>
            plan' = Some(Tail(plan[1]))]_vars

C11_Witness ==
    /\ origPlan # None
    /\ PlanLen = 2
    /\ origPlan[1][1] # origPlan[1][2]
    /\ plan = Some(<<origPlan[1][2]>>)
    /\ Len(stepLog) = 1

\* C12: an Executor call on an empty plan is a no-op: it calls no tool and
\* no model, raises no error, and leaves user_input, plan,
\* intermediate_results and final_output unchanged.
C12_EmptyPlanNoOp ==
    [][pc = "executer" /\ ~HasStep =>
         /\ calls' = calls
         /\ error' = ""
         /\ pc' = "router"
         /\ user_input' = user_input
         /\ plan' = plan
         /\ intermediate_messages' = intermediate_messages
         /\ final_output' = final_output
         /\ stepLog' = stepLog]_vars

C12_Witness ==
    /\ pc = "router"
    /\ EmptyPlanned
    /\ nodeRuns["executer"] = 1
    /\ plan = Some(<<>>)
    /\ Len(calls) = 1
    /\ intermediate_messages = <<>>

\* C19 as stated: the plan the Planner stores in the run state always
\* contains between 4 and 7 steps.
C19_Original ==
    plan # None => Len(plan[1]) \in MinSteps..MaxSteps

\* C19 as amended: the plan the Planner stores is exactly the list of steps
\* the structured model call returned, in the same order and of whatever
\* length: fewer than 4 steps (none included) or more than 7 are stored
\* unchanged.
C19_StoresReturnedSteps ==
    /\ [](plan # None =>
            /\ Len(calls) = 1
            /\ calls[1].callee = PLANNER_LLM
            /\ calls[1].reply = plan)
    /\ [][pc = "planner" /\ pc' = "executer" => plan' = calls'[1].reply]_vars

C19_Witness ==
    /\ pc = "executer"
    /\ plan # None
    /\ Len(plan[1]) = MaxStoredLen
    /\ plan[1][1] # plan[1][2]
    /\ calls[1].reply = plan

\* C20: user_input is immutable after the run state is created: no node and
\* no routing step changes it, the Planner was asked about that value, and
\* the synthesis prompt embeds that same value.
C20_UserInputImmutable ==
    /\ [][user_input' = user_input]_vars
    /\ [](Len(calls) >= 1 =>
            /\ calls[1].callee = PLANNER_LLM
            /\ calls[1].arg = planner_msgs(user_input))
    /\ [](nodeRuns["synthesizer"] = 1 =>
            /\ LastCall.callee = LLM
            /\ Len(LastCall.arg) > Len(user_input)
            /\ SubSeq(LastCall.arg, 2, Len(user_input) + 1) = user_input)

C20_Witness ==
    /\ pc = "done"
    /\ user_input = <<"u2">>
    /\ Len(stepLog) = 2
    /\ LastCall.callee = LLM
    /\ LastCall.arg[2] = "u2"

\* C13 as stated: whatever the job store holds, a file that cannot be read
\* or parsed included, none of the five job-store reads raises: each returns
\* a summary, a listing or a not-found text.
C13_ReadsNeverRaise ==
    lastRead # None =>
        /\ ~lastRead[1].result.raised
        /\ lastRead[1].result.text # <<>>

Stems == {saveLog[i].stem : i \in 1..Len(saveLog)}

\* C14: saves made one after the other never overwrite: the stems they return
\* are pairwise distinct, every file a save found in the store keeps its
\* content, every saved file still holds the record saved to it, and a
\* record saved again gets its base name plus a numeric suffix.
C14_NoOverwrite ==
    /\ [](\A i, j \in 1..Len(saveLog) : i # j => saveLog[i].stem # saveLog[j].stem)
    /\ [](\A i \in 1..Len(saveLog) :
            /\ Exists(store, saveLog[i].stem)
            /\ store[saveLog[i].stem] = saveLog[i].job)
    /\ [][\A f \in DOMAIN store : Exists(store', f) /\ store'[f] = store[f]]_vars
    /\ [](\A i, j \in 1..Len(saveLog) :
            i < j /\ saveLog[i].job = saveLog[j].job =>
                \E n \in 1..(Len(saveLog) + 1) :
                    saveLog[j].stem \in {Numbered(Filename(saveLog[j].job), n),
                                         Numbered(build_filename(saveLog[j].job), n)})

C14_Witness ==
    /\ Len(saveLog) = 3
    /\ saveLog[1] = Saved(JobFull, Filename(JobFull))
    /\ saveLog[2] = Saved(JobNumbered, Numbered(Filename(JobFull), 1))
    /\ saveLog[3] = Saved(JobFull, Numbered(Filename(JobFull), 2))
    /\ store[Filename(JobFull)] = JobFull

\* The lines a summary of a record has to show: one for every field the
\* record has a value for.
PopulatedLines(job) ==
    {<<"Job: ">> \o job.title, <<"Company: ">> \o job.company,
     <<"Description: ">> \o job.description}
    \cup (IF job.location # None THEN {<<"Location: ">> \o job.location[1]} ELSE {})
    \cup (IF job.requirements # <<>>
          THEN {<<"Requirements: ">> \o Join(", ", job.requirements)} ELSE {})
    \cup (IF job.responsibilities # <<>>
          THEN {<<"Responsibilities: ">> \o Join(", ", job.responsibilities)} ELSE {})
    \cup (IF job.salary # None THEN {<<"Salary: ">> \o job.salary[1]} ELSE {})
    \cup (IF job.type # None THEN {<<"Employment Type: ">> \o job.type[1]} ELSE {})

\* C15 as stated: get_job_by_filename, called with the stem a save returned,
\* answers with a summary that shows every populated field of the saved
\* record, salary and type included.
C15_RoundTrip ==
    \A i \in 1..Len(saveLog) :
        (/\ lastRead # None
         /\ lastRead[1].tool = GJ
         /\ lastRead[1].arg = saveLog[i].stem
         /\ lastRead[1].saves >= i)
        => /\ ~lastRead[1].result.raised
           /\ \A line \in PopulatedLines(saveLog[i].job) :
                IsInfix(line, lastRead[1].result.text)

\* Two saves that left the loop with the same path and have both returned.
Raced(p, q) ==
    /\ p # q
    /\ savers[p].pc = "returned"
    /\ savers[q].pc = "returned"
    /\ savers[p].filepath = savers[q].filepath

\* C16: the save checks and then writes with no lock: whatever another save
\* did after the check, the only step left to a save that has left the loop
\* is the write to the path it checked; so two saves that passed the check
\* for the same path both return that stem and the file holds the record
\* written last, the other one being lost.
C16_CheckThenWrite ==
    /\ [][\A p \in Savers :
            savers[p].pc = "write" /\ savers'[p] # savers[p] =>
                /\ savers'[p].pc = "returned"
                /\ store' = Written(store, savers[p].filepath, savers[p].job_data)]_vars
    /\ [](\A p, q \in Savers :
            Raced(p, q) =>
                /\ Len(saveLog) = 2
                /\ saveLog[1].stem = saveLog[2].stem
                /\ store[savers[p].filepath] = saveLog[2].job)

C16_Witness ==
    /\ Raced(1, 2)
    /\ savers[1].filepath = Numbered(Filename(JobFull), 1)
    /\ saveLog[1].job = JobFull
    /\ saveLog[2].job = JobSameName
    /\ store[savers[1].filepath] = JobSameName
    /\ \A f \in DOMAIN store : store[f] # saveLog[1].job \/ f = Filename(JobFull)

\* The texts the Executor puts in place of a result it could not ask for.
ParseErrors == {ErrWeb, ErrTitle, ErrTerm, ErrFilename, ErrCriteria}

\* C18: for /plan and for /plan-with-job alike, a run aborted by an error of
\* the planner, a tool or a model is answered with a status outside 2xx and
\* an error text, never with a body of results; a run that completed is
\* answered with 200 and the collected results, and a step whose argument
\* could not be parsed shows there as its error string.
C18_HttpBoundary ==
    http.response # None =>
        LET response == http.response[1]
        IN /\ error # "" =>
                /\ pc = "abort"
                /\ ~(response.status \in 200..299)
                /\ response.detail # None
                /\ response.body = None
           /\ error = "" =>
                /\ pc = "done"
                /\ response.status = 200
                /\ response.body # None
                /\ response.body[1].final_output = final_output
                /\ response.body[1].intermediate_messages = intermediate_messages
                /\ \A i \in 1..Len(stepLog) :
                     stepLog[i].result \in ParseErrors =>
                         response.body[1].intermediate_messages[i] = stepLog[i].result

C18_Witness ==
    /\ http.response # None
    /\ http.endpoint = PLAN_WITH_JOB
    /\ http.response[1].status = 200
    /\ Len(stepLog) = 1
    /\ stepLog[1].result = ErrTitle
    /\ http.response[1].body[1].intermediate_messages = <<ErrTitle>>

\* The state of the first run, as the second one's is kept.
Run1 == RunState(pc, user_input, plan, intermediate_messages, final_output, error, calls)

\* C17: under every interleaving of the node steps of two runs, a step of one
\* run leaves the other run's plan, intermediate_results and final_output
\* (and all the rest of its state) as they are, and takes its own run to
\* the state the same node reaches from that run's state alone with the same
\* answer of the external call; so each run ends as it would end alone.
C17_RunsIndependent ==
    /\ [][Run1' # Run1 =>
            /\ run2' = run2
            /\ \E ext \in Exts(Run1) : Run1' = NodeStep(Run1, ext)]_vars
    /\ [][run2' # run2 =>
            /\ Run1' = Run1
            /\ \E ext \in Exts(run2) : run2' = NodeStep(run2, ext)]_vars
    /\ [](run2.pc = "done" =>
            /\ run2.calls[Len(run2.calls)].arg
                 = synth_prompt(run2.user_input, run2.intermediate_messages)
            /\ Len(run2.intermediate_messages) = Len(run2.calls[1].reply[1]))

C17_Witness ==
    /\ pc = "done"
    /\ run2.pc = "done"
    /\ user_input # run2.user_input
    /\ Len(intermediate_messages) = 1
    /\ Len(run2.intermediate_messages) = 1
    /\ intermediate_messages # run2.intermediate_messages
    /\ final_output # run2.final_output

\* The step names the argument tool and no pattern of that tool's branch
\* extracts an argument from it.
Unparsed(s, name) ==
    /\ StartsWith(s, name)
    /\ ReSearch(name, DQ, s) = None
    /\ name = WS => ReSearch(WS, SQ, s) = None

ErrorString(name) ==
    CASE name = WS -> ErrWeb
      [] name = LJ -> ErrTitle
      [] name = SJ -> ErrTerm
      [] name = GJ -> ErrFilename
      [] name = SC -> ErrCriteria

ParseErrorLogged == \E i \in 1..Len(stepLog) : stepLog[i].result \in ParseErrors

\* C21: a step that names one of the five argument tools and cannot be
\* parsed is answered on the spot: that tool's literal error string is
\* appended as the step's result, nothing is called, nothing is raised, the
\* step leaves the plan and the router is next. The run goes on after it:
\* only a call that raised ever aborts a run, a run with a parse error behind
\* it ends, and when it ends without a raised call every step of the plan
\* was executed in order and the Synthesizer ran once.
C21_ParseErrorsLocal ==
    /\ [][pc = "executer" /\ HasStep =>
            \A name \in ArgTools :
                Unparsed(NextStep, name) =>
                    /\ calls' = calls
                    /\ intermediate_messages' = Append(intermediate_messages, ErrorString(name))
                    /\ plan' = Some(Tail(plan[1]))
                    /\ error' = ""
                    /\ pc' = "router"]_vars
    /\ [](pc = "abort" => error # "" /\ LastCall.reply = None)
    /\ [](pc = "done" =>
            /\ Len(stepLog) = PlanLen
            /\ \A i \in 1..PlanLen : stepLog[i].step = origPlan[1][i]
            /\ nodeRuns["synthesizer"] = 1
            /\ final_output # None)
    /\ [](ParseErrorLogged => <>(pc = "done" \/ error # ""))

C21_Witness ==
    /\ pc = "done"
    /\ Len(stepLog) = 2
    /\ stepLog[1].step = <<SC, LP, DQ, DQ, RP>>
    /\ stepLog[2].step = <<CH, CH>>
    /\ intermediate_messages = <<ErrCriteria, <<"r1">>>>
    /\ Len(calls) = 3
    /\ final_output # None
    /\ error = ""

FreeForm(s) == \A name \in ToolNames : ~StartsWith(s, name)

\* C22: for a step that starts with none of the six tool names one Executor
\* call invokes the model exactly once and nothing else, with the prompt
\* that holds the whole step text, unchanged, between its fixed opening and
\* closing; the text the model returns is appended as the new last entry of
\* intermediate_results and the step leaves the plan (a model call that
\* raises aborts the run).
C22_FreeForm ==
    [][pc = "executer" /\ HasStep /\ FreeForm(NextStep) =>
         OneCallOf(LLM,
             <<"You are a recruitment and job analysis expert. Process this step: Step: ">>
                 \o NextStep
                 \o <<" Provide expert analysis and recommendations.">>)]_vars

C22_Witness ==
    /\ pc = "router"
    /\ Len(stepLog) = 1
    /\ stepLog[1].step = <<CH, LP, DQ, CH, DQ, RP>>
    /\ Len(calls) = 2
    /\ LastCall.callee = LLM
    /\ LastCall.reply = Some(<<"r2">>)
    /\ intermediate_messages = <<<<"r2">>>>
    /\ plan = Some(<<>>)

\* Characters an argument between single quotes may hold as they stand: any
\* but the single quote, the line break and the name of the web search.
SinglePlainChars == {LP, RP, DQ, CH} \cup (ToolNames \ {WS})

\* s starts with web_search_tool('arg'), arg being n >= 1 such characters.
SingleQuotedCall(s, n) ==
    /\ n >= 1
    /\ Len(s) >= n + 5
    /\ s[1] = WS
    /\ s[2] = LP
    /\ s[3] = SQ
    /\ \A k \in 4..(n + 3) : s[k] \in SinglePlainChars
    /\ s[n + 4] = SQ
    /\ s[n + 5] = RP

\* C23: for a step that starts with web_search_tool("q") or with
\* web_search_tool('q'), q a non-empty query free of its own quote
\* character and of line breaks, one Executor call invokes the web search
\* and nothing else, with exactly q; and in general the web search is
\* invoked with what the double-quoted pattern extracts, and with what the
\* single-quoted pattern extracts when the double-quoted one extracts
\* nothing.
C23_BothQuotings ==
    [][pc = "executer" /\ HasStep /\ StartsWith(NextStep, WS) =>
         /\ \A n \in 1..Len(NextStep) :
              /\ QuotedCall(NextStep, WS, n) => OneCallOf(WS, SubSeq(NextStep, 4, n + 3))
              /\ SingleQuotedCall(NextStep, n) => OneCallOf(WS, SubSeq(NextStep, 4, n + 3))
         /\ ReSearch(WS, DQ, NextStep) # None
              => OneCallOf(WS, ReSearch(WS, DQ, NextStep)[1])
         /\ ReSearch(WS, DQ, NextStep) = None /\ ReSearch(WS, SQ, NextStep) # None
              => OneCallOf(WS, ReSearch(WS, SQ, NextStep)[1])]_vars

C23_Witness ==
    /\ pc = "router"
    /\ Len(stepLog) = 1
    /\ stepLog[1].step = <<WS, LP, SQ, DQ, SQ, RP>>
    /\ Len(calls) = 2
    /\ LastCall.callee = WS
    /\ LastCall.arg = <<DQ>>
    /\ intermediate_messages = <<LastCall.reply[1]>>
    /\ plan = Some(<<>>)

Ended == pc \in {"done", "abort"}

\* C24: with every node call returning or raising, every run ends, in DONE
\* or in the abort state. Each Executor call on a plan with a step left
\* either raises, which ends the run, or returns with the plan exactly one
\* step shorter; no other node changes a plan once it is set, so the
\* Executor is entered at most once per planned step (once on an empty
\* plan).
C24_Terminates ==
    /\ <>Ended
    /\ [][pc = "executer" /\ HasStep =>
            \/ pc' = "abort" /\ plan' = plan
            \/ pc' = "router" /\ Len(plan'[1]) = Len(plan[1]) - 1]_vars
    /\ [][pc # "executer" /\ plan # None => plan' = plan]_vars
    /\ [](origPlan # None =>
            /\ nodeRuns["executer"] <= (IF PlanLen = 0 THEN 1 ELSE PlanLen)
            /\ (pc \in {"executer", "router"} =>
                    nodeRuns["executer"] + Len(plan[1]) <= PlanLen + 1))

C24_Witness ==
    /\ pc = "done"
    /\ PlanLen = 2
    /\ nodeRuns["executer"] = 2
    /\ plan = Some(<<>>)
    /\ stepLog[1].step = <<LA, LP, RP>>
    /\ stepLog[2].step = <<CH, CH>>

ModelCallees == {LLM, PLANNER_LLM}

ModelCallsIn(cs) == Cardinality({i \in 1..Len(cs) : cs[i].callee \in ModelCallees})

PlannerCallsIn(cs) == Cardinality({i \in 1..Len(cs) : cs[i].callee = PLANNER_LLM})

\* The number of free-form steps of the plan the Planner returned.
FreeFormSteps == Cardinality({i \in 1..PlanLen : FreeForm(origPlan[1][i])})

\* C25: a Planner call makes exactly one model call, the structured one, and
\* no other; a Synthesizer call makes exactly one model call; an Executor
\* call makes exactly one model call on a free-form step and none on a step
\* that starts with a tool name or on an empty plan; the router makes none.
\* A run that is done over a plan with k free-form steps has made exactly
\* k + 2 model calls, one of them the Planner's.
C25_ModelCalls ==
    /\ [][pc = "planner" =>
            /\ ModelCallsIn(calls') = ModelCallsIn(calls) + 1
            /\ PlannerCallsIn(calls') = PlannerCallsIn(calls) + 1
            /\ Len(calls') = Len(calls) + 1]_vars
    /\ [][pc = "synthesizer" =>
            /\ ModelCallsIn(calls') = ModelCallsIn(calls) + 1
            /\ PlannerCallsIn(calls') = PlannerCallsIn(calls)
            /\ Len(calls') = Len(calls) + 1]_vars
    /\ [][pc = "executer" =>
            /\ ModelCallsIn(calls') = ModelCallsIn(calls) +
                   (IF HasStep /\ FreeForm(NextStep) THEN 1 ELSE 0)
            /\ PlannerCallsIn(calls') = PlannerCallsIn(calls)]_vars
    /\ [][pc = "router" => calls' = calls]_vars
    /\ [](pc = "done" =>
            /\ ModelCallsIn(calls) = FreeFormSteps + 2
            /\ PlannerCallsIn(calls) = 1)

C25_Witness ==
    /\ pc = "done"
    /\ PlanLen = 2
    /\ FreeFormSteps = 1
    /\ stepLog[1].result \in ParseErrors
    /\ Len(calls) = 3
    /\ ModelCallsIn(calls) = 3

\* The first n entries of ms, each after the first behind one line break.
RECURSIVE DataBlock(_, _)
DataBlock(ms, n) ==
    IF n = 0 THEN <<>>
    ELSE IF n = 1 THEN ms[1]
    ELSE DataBlock(ms, n - 1) \o <<NL>> \o ms[n]

\* C26: the Synthesizer makes one call of the model, with a prompt that holds
\* the request and, under "Collected Data:", every entry of
\* intermediate_results once, in stored order, one line break between
\* neighbours; when the call returns, final_output is exactly the returned
\* text and nothing else of the state changes; when it raises, final_output
\* stays unset.
C26_CollectedData ==
    [][pc = "synthesizer" =>
         /\ Len(calls') = Len(calls) + 1
         /\ SubSeq(calls', 1, Len(calls)) = calls
         /\ calls'[Len(calls')].callee = LLM
         /\ calls'[Len(calls')].arg =
                <<"You are an expert synthesizer. [...] Request: ">> \o user_input
                    \o <<NL, "Collected Data:", NL>>
                    \o DataBlock(intermediate_messages, Len(intermediate_messages))
                    \o <<NL>>
         /\ IF calls'[Len(calls')].reply = None
            THEN final_output' = None /\ pc' = "abort"
            ELSE final_output' = calls'[Len(calls')].reply /\ pc' = "done"
         /\ UNCHANGED <<user_input, plan, intermediate_messages>>]_vars

C26_Witness ==
    /\ pc = "done"
    /\ intermediate_messages = <<ErrWeb, <<"r2">>>>
    /\ LastCall.callee = LLM
    /\ LastCall.arg[Len(LastCall.arg) - 3] = ErrWeb[1]
    /\ LastCall.arg[Len(LastCall.arg) - 2] = NL
    /\ LastCall.arg[Len(LastCall.arg) - 1] = "r2"
    /\ final_output = Some(<<"r1">>)
    /\ LastCall.reply = Some(<<"r1">>)

\* The texts of a job record the criteria search is said to look into: title,
\* description, the location when there is one, every requirement and every
\* responsibility.
SearchedTexts(job_data) ==
    {Get(job_data, "title", <<>>), Get(job_data, "description", <<>>)}
        \cup (IF Get(job_data, "location", None) = None THEN {}
              ELSE {job_data.location[1]})
        \cup {Get(job_data, "requirements", <<>>)[i] :
                 i \in 1..Len(Get(job_data, "requirements", <<>>))}
        \cup {Get(job_data, "responsibilities", <<>>)[i] :
                 i \in 1..Len(Get(job_data, "responsibilities", <<>>))}

\* Some white-space delimited word of the criteria occurs, whatever the case
\* of its letters, in one of the searched texts.
Qualifies(job_data, criteria) ==
    \E k \in 1..Len(Split(criteria, <<>>)) :
        \E text \in SearchedTexts(job_data) :
            IsInfix(Lower(Split(criteria, <<>>)[k]), Lower(text))

CriteriaRead ==
    /\ lastRead # None
    /\ lastRead[1].tool = SC
    /\ lastRead[1].saves = Len(saveLog)
    /\ ~lastRead[1].result.raised

\* C27 as stated: a criteria search that returns lists, in some order of the
\* directory, the line of every stored job of which a criteria word occurs in
\* the title, the description, the location, a requirement or a
\* responsibility, and of no other job; when there is no such job it returns
\* "No jobs found matching '<criteria>'".
C27_CriteriaSearch ==
    CriteriaRead =>
        \E order \in Orders(DOMAIN store) :
            LET listed == SelectSeq(order, LAMBDA f : Qualifies(store[f], lastRead[1].arg))
            IN lastRead[1].result.text =
                   IF listed = <<>>
                   THEN <<"No jobs found matching '">> \o lastRead[1].arg \o <<"'">>
                   ELSE <<"Jobs matching '">> \o lastRead[1].arg \o <<"':", NL>>
                            \o Join(NL, JobLines(store, listed))

\* C28: from the Planner's return on, in every state of a run that has not
\* aborted, the steps left in the plan and the results collected add up to
\* the number of steps the Planner returned.
C28_StepsConserved ==
    origPlan # None /\ pc # "abort" =>
        /\ plan # None
        /\ Len(plan[1]) + Len(intermediate_messages) = PlanLen

C28_Witness ==
    /\ pc = "router"
    /\ PlanLen = 2
    /\ Len(plan[1]) = 1
    /\ intermediate_messages = <<ErrTitle>>

\* C29: an Executor call that raises leaves the run state as it found it:
\* request, plan, intermediate_results and final_output are unchanged, the
\* one thing that happened being the call that raised. In the abort state
\* after it the failing step is still the first of the plan, the plan is the
\* rest of the Planner's plan from that step on, and intermediate_results
\* holds the results of the steps before it, one each, in order.
C29_RaiseLeavesState ==
    /\ [][pc = "executer" /\ pc' = "abort" =>
            /\ UNCHANGED <<user_input, plan, intermediate_messages, final_output>>
            /\ Len(calls') = Len(calls) + 1
            /\ calls'[Len(calls')].reply = None]_vars
    /\ [](error = "executer" =>
            /\ pc = "abort"
            /\ HasStep
            /\ Len(intermediate_messages) + Len(plan[1]) = PlanLen
            /\ plan[1] = SubSeq(origPlan[1], Len(intermediate_messages) + 1, PlanLen)
            /\ Len(stepLog) = Len(intermediate_messages)
            /\ \A i \in 1..Len(intermediate_messages) :
                    /\ stepLog[i].step = origPlan[1][i]
                    /\ stepLog[i].result = intermediate_messages[i]
            /\ final_output = None)

C29_Witness ==
    /\ error = "executer"
    /\ pc = "abort"
    /\ PlanLen = 2
    /\ plan = Some(<<<<CH, CH>>>>)
    /\ intermediate_messages = <<<<"r1">>>>
    /\ LastCall.callee = LLM
    /\ LastCall.reply = None

\* C30: the edge from the Planner to the Executor is unconditional and the
\* router is reached only from an Executor call. So when the Planner
\* returns an empty plan the Executor is still entered, exactly once; that
\* call appends nothing and calls nothing; the router, asked after it,
\* selects the Synthesizer, and the Executor is not entered again.
C30_EmptyPlanEntersExecutor ==
    /\ [][pc = "planner" /\ pc' # "abort" => pc' = "executer"]_vars
    /\ [][pc' = "router" => pc = "executer"]_vars
    /\ [][EmptyPlanned /\ pc = "executer" =>
            /\ nodeRuns["executer"] = 0
            /\ nodeRuns'["executer"] = 1
            /\ calls' = calls
            /\ intermediate_messages' = intermediate_messages
            /\ pc' = "router"]_vars
    /\ [][EmptyPlanned /\ pc = "router" => pc' = "synthesizer"]_vars
    /\ [](EmptyPlanned =>
            /\ nodeRuns["executer"] <= 1
            /\ (pc \in {"router", "synthesizer", "done"} => nodeRuns["executer"] = 1)
            /\ (nodeRuns["synthesizer"] = 1 => nodeRuns["executer"] = 1))

C30_Witness ==
    /\ EmptyPlanned
    /\ pc = "synthesizer"
    /\ nodeRuns = [n \in {"planner", "executer", "synthesizer"} |->
                      IF n = "synthesizer" THEN 0 ELSE 1]
    /\ Len(calls) = 1
    /\ intermediate_messages = <<>>

\* The run of the request was aborted by an error of one of its nodes.
RunAborted == error \in {"planner", "executer", "synthesizer"}

\* C31: /plan-with-job writes the job record to the store before the run
\* starts, under a name not in use, and nothing takes it back: every file a
\* request has saved stays in the store with its record, whatever the run
\* does. A run that aborts is answered with status 400 while its file is in
\* the store; and when the request is sent again after such an answer and
\* its record gets the same base name, the record is saved to a further
\* file, the base name with a numeric suffix, the earlier file staying as it
\* is.
C31_SavedBeforeRun ==
    /\ [][pc = "request" /\ pc' = "planner" =>
            /\ nodeRuns = [n \in {"planner", "executer", "synthesizer"} |-> 0]
            /\ calls = <<>>
            /\ Len(saveLog') = Len(saveLog) + 1
            /\ http'.filename # None
            /\ http'.filename[1] \notin DOMAIN store
            /\ http'.filename[1] \in DOMAIN store'
            /\ store'[http'.filename[1]] = http'.job_data[1]]_vars
    /\ [][\A f \in DOMAIN store : f \in DOMAIN store' /\ store'[f] = store[f]]_vars
    /\ [](pc \notin {"request"} /\ error # "parse" =>
            /\ http.filename # None
            /\ http.filename[1] \in DOMAIN store
            /\ store[http.filename[1]] = http.job_data[1])
    /\ [](http.response # None /\ RunAborted =>
            /\ http.response[1].status = 400
            /\ http.response[1].body = None
            /\ http.filename[1] \in DOMAIN store)
    /\ [](\A i \in 1..Len(http.earlier) :
            LET before == http.earlier[i]
            IN before.filename # None =>
                 /\ before.filename[1] \in DOMAIN store
                 /\ store[before.filename[1]] = before.job_data[1]
                 /\ (http.filename # None
                        /\ Filename(http.job_data[1]) = Filename(before.job_data[1]) =>
                       /\ http.filename[1] # before.filename[1]
                       /\ \E k \in 1..MaxRequests :
                             http.filename[1] = Numbered(Filename(http.job_data[1]), k)))

C31_Witness ==
    /\ Len(http.earlier) = 1
    /\ http.earlier[1].status = 400
    /\ http.earlier[1].filename = Some(<<CH, US, LOW>>)
    /\ http.earlier[1].job_data = Some(JobFull)
    /\ http.job_data = Some(JobFull)
    /\ http.filename = Some(<<CH, US, LOW, US, "1">>)
    /\ DOMAIN store = {<<CH, US, LOW>>, <<CH, US, LOW, US, "1">>}
    /\ http.response # None
    /\ http.response[1].status = 400
    /\ error = "executer"

JobTools == ArgTools \ {WS}

\* s is name('arg'), from its first character to its last, arg being any
\* text, the empty one included, that names no tool.
SingleQuotedStep(s, name) ==
    /\ Len(s) >= 5
    /\ s[1] = name
    /\ s[2] = LP
    /\ s[3] = SQ
    /\ \A k \in 4..(Len(s) - 2) : s[k] \notin ToolNames
    /\ s[Len(s) - 1] = SQ
    /\ s[Len(s)] = RP

\* s is name("") or name('').
EmptyArgStep(s, name) == s = <<name, LP, DQ, DQ, RP>> \/ s = <<name, LP, SQ, SQ, RP>>

\* C32: a step that is a call of load_job_by_title, search_jobs_by_title,
\* get_job_by_filename or search_jobs_by_criteria with its argument between
\* single quotes, or with an empty argument between quotes of either kind,
\* invokes no tool and no model: the tool's parse-error string is appended as
\* the step's result, the step leaves the plan and nothing is raised. The
\* same single-quoted step of web_search_tool, its argument not empty and
\* free of single quotes and line breaks, invokes the web search with the
\* argument.
C32_SingleQuotesWebOnly ==
    [][pc = "executer" /\ HasStep =>
         /\ \A name \in JobTools :
              SingleQuotedStep(NextStep, name) \/ EmptyArgStep(NextStep, name) =>
                  /\ calls' = calls
                  /\ intermediate_messages' = Append(intermediate_messages, ErrorString(name))
                  /\ plan' = Some(Tail(plan[1]))
                  /\ error' = ""
                  /\ pc' = "router"
         /\ SingleQuotedStep(NextStep, WS) /\ SingleQuotedCall(NextStep, Len(NextStep) - 5) =>
              OneCallOf(WS, SubSeq(NextStep, 4, Len(NextStep) - 2))]_vars

C32_Witness ==
    /\ pc = "router"
    /\ Len(stepLog) = 1
    /\ stepLog[1].step = <<SJ, LP, SQ, CH, SQ, RP>>
    /\ intermediate_messages = <<ErrTerm>>
    /\ Len(calls) = 1
    /\ plan = Some(<<>>)
    /\ error = ""

====
